---- MODULE Spec2Model ----
(***************************************************************************)
(* essentia-api: the similarity engine (lib/tracks_db.py) and the          *)
(* /api/similar and /api/dump handlers (lib/app.py) as a state machine.    *)
(*                                                                         *)
(* Numbers.  Acoustic attributes and genre differences are kept in tenths  *)
(* (0.1 -> 1, 0.2 -> 2, 0.4 -> 4, the placeholder 5 -> 50).  A distance d  *)
(* is kept as the integer D = (10*d)^2, so that                            *)
(*     similarity = d / max_sim = sqrt(D / 1300)                           *)
(* and every comparison the code makes on similarities is decided exactly  *)
(* on the integers (see SimDiffGreater).                                   *)
(*                                                                         *)
(* Calls.  app.py calls db.get(path) and                                   *)
(* db.get_similar_tracks(seed, seed_genres, all_genres, min_duration,      *)
(* max_duration, skip_rows, match_all_genres), while tracks_db.py defines  *)
(* get(path, is_seed) and get_similar_tracks(seed, match_all_genres,       *)
(* num_skip, count).  The arguments are bound by name: seed and            *)
(* match_all_genres reach the callee, the arguments the callee has no      *)
(* parameter for (durations, skip_rows, genres) have no effect, num_skip   *)
(* and count take their defaults, and seeds are read with is_seed=True.    *)
(***************************************************************************)
EXTENDS Integers, Sequences, FiniteSets, TLC

(***************************************************************************)
(* Bounds of the exploration                                               *)
(***************************************************************************)
MaxSeeds == 2
MaxPrev == 1
\* The configurations a load is tried with: at most MaxGroups groups of at most
\* MaxGroupLen names.
MaxGroups == 2
MaxGroupLen == 2

(***************************************************************************)
(* Program constants                                                       *)
(***************************************************************************)
DEFAULT_TRACKS_TO_RETURN == 5
MIN_TRACKS_TO_RETURN == 5
MAX_TRACKS_TO_RETURN == 50
NUM_PREV_TRACKS_FILTER_ARTIST == 15
NUM_PREV_TRACKS_FILTER_ALBUM == 25
SHUFFLE_FACTOR == 4
NUM_NEIGHBOURS == 1000
NO_GENRE == "<NoGenre>"
ESSENTIA_ATTRIBS == <<"danceable", "aggressive", "electronic", "acoustic", "happy", "party", "relaxed", "sad", "dark", "tonal", "voice", "bpm">>

\* One unit of the model is 0.1.
Scale == 10
\* max_sim = sqrt(len(ESSENTIA_ATTRIBS)+1); kept squared.
max_sim_sq == Len(ESSENTIA_ATTRIBS) + 1
\* (Scale * max_sim)^2: similarity^2 = D / SimDen
SimDen == Scale * Scale * max_sim_sq

None == "None"
\* An optional value: Nothing, or Some(x) with Get(Some(x)) = x
Nothing == <<>>
Some(x) == <<x>>
Get(o) == o[1]
\* `similarity` not yet set / first_sim is None
NoSim == 0 - 1
Min(a, b) == IF a < b THEN a ELSE b
Max(a, b) == IF a > b THEN a ELSE b
Range(s) == {s[i] : i \in DOMAIN s}
SeqsUpTo(S, lo, hi) == UNION {[1..n -> S] : n \in lo..hi}
Take(s, n) == SubSeq(s, 1, Min(Len(s), Max(n, 0)))

(***************************************************************************)
(* The catalog on disk: the rows of the `tracks` table, in rowid order.    *)
(* attrs are the eleven attributes before bpm, in tenths.                  *)
(***************************************************************************)
Attrs(d, a, rest) == <<d, a, rest, rest, rest, rest, rest, rest, rest, rest, rest>>

ClusterAttrs(d, a) == <<d, a, 10, 10, 10, 10, 10, 0, 0, 0, 0>>

Row(file, title, artist, album, genre, duration, ignore, attrs, bpm) ==
    [file |-> file, title |-> title, artist |-> artist, album |-> album,
     albumartist |-> artist, genre |-> genre, duration |-> duration,
     ignore |-> ignore, attrs |-> attrs, bpm |-> bpm]

Catalog ==
    << Row("x1.mp3", "T1", "X", "XA", <<"Rock">>,          200, 0, Attrs(0, 0, 0), 60),
       Row("x2.mp3", "T2", "X", "XB", <<"Rock">>,          300, 0, Attrs(10, 10, 10), 160),
       Row("ig.mp3", "T3", "I", "IA", <<"Rock">>,          200, 1, Attrs(0, 1, 0), 60),
       Row("y1.mp3", "T4", "Y", "YA", <<"Rock">>,          100, 0, Attrs(2, 0, 0), 60),
       Row("y2.mp3", "T5", "Y", "YB", <<"Rock", "Metal">>, 250, 0, Attrs(2, 0, 0), 60),
       Row("z.mp3",  "T6", "Z", "ZA", <<"Pop">>,           200, 0, Attrs(0, 3, 0), 60),
       Row("u.mp3",  "T7", "U", "UA", <<"Pop">>,           400, 0, Attrs(4, 0, 0), 60),
       Row("v.mp3",  "T8", "V", "VA", <<"Dance">>,         200, 0, Attrs(3, 4, 0), 60),
       Row("w.mp3",  "T9", "W", "WA", <<>>,                200, 0, Attrs(1, 6, 0), 60),
       Row("q.mp3",  "T10", "Q", "QA", <<"Metal">>,        200, 0, Attrs(6, 3, 0), 70),
       \* seventeen tracks close to one another and far from the ones above, each
       \* with an artist and an album of its own
       Row("c0.mp3", "t11", "c0", "c0a", <<"Rock">>, 200, 0, ClusterAttrs(3, 6), 60),
       Row("c1.mp3", "t12", "c1", "c1a", <<"Rock">>, 200, 0, ClusterAttrs(3, 7), 70),
       Row("c2.mp3", "t13", "c2", "c2a", <<"Rock">>, 200, 0, ClusterAttrs(6, 4), 80),
       Row("c3.mp3", "t14", "c3", "c3a", <<"Rock">>, 200, 0, ClusterAttrs(4, 3), 70),
       Row("c4.mp3", "t15", "c4", "c4a", <<"Rock">>, 200, 0, ClusterAttrs(2, 2), 70),
       Row("c5.mp3", "t16", "c5", "c5a", <<"Rock">>, 200, 0, ClusterAttrs(6, 3), 70),
       Row("c6.mp3", "t17", "c6", "c6a", <<"Rock">>, 200, 0, ClusterAttrs(8, 8), 60),
       Row("c7.mp3", "t18", "c7", "c7a", <<"Rock">>, 200, 0, ClusterAttrs(3, 7), 90),
       Row("c8.mp3", "t19", "c8", "c8a", <<"Rock">>, 200, 0, ClusterAttrs(3, 8), 90),
       Row("c9.mp3", "t20", "c9", "c9a", <<"Rock">>, 200, 0, ClusterAttrs(2, 8), 60),
       Row("c10.mp3", "t21", "c10", "c10a", <<"Rock">>, 200, 0, ClusterAttrs(8, 7), 80),
       Row("c11.mp3", "t22", "c11", "c11a", <<"Rock">>, 200, 0, ClusterAttrs(8, 5), 60),
       Row("c12.mp3", "t23", "c12", "c12a", <<"Rock">>, 200, 0, ClusterAttrs(7, 4), 60),
       Row("c13.mp3", "t24", "c13", "c13a", <<"Rock">>, 200, 0, ClusterAttrs(8, 6), 90),
       Row("c14.mp3", "t25", "c14", "c14a", <<"Rock">>, 200, 0, ClusterAttrs(8, 5), 70),
       Row("c15.mp3", "t26", "c15", "c15a", <<"Rock">>, 200, 0, ClusterAttrs(3, 3), 60),
       Row("c16.mp3", "t27", "c16", "c16a", <<"Rock">>, 200, 0, ClusterAttrs(8, 6), 60) >>

RowIds == DOMAIN Catalog
UnknownPath == "nowhere.mp3"

\* The configuration file: genre groups by name (config.json `genres`).
ConfigGenres == << <<"Rock", "Metal">>, <<"Pop", "Dance", "Jazz">> >>

(***************************************************************************)
(* String normalisation (normalize_str and its callers): lower-casing is   *)
(* what acts on the names of this catalog; a name in lower case stays.     *)
(***************************************************************************)
Lower ==
    [s \in {Catalog[r].artist : r \in RowIds} \cup {Catalog[r].album : r \in RowIds}
           \cup {Catalog[r].title : r \in RowIds} |->
        CASE s = "X" -> "x" [] s = "Y" -> "y" [] s = "Z" -> "z" [] s = "U" -> "u"
          [] s = "V" -> "v" [] s = "W" -> "w" [] s = "Q" -> "q" [] s = "I" -> "i"
          [] s = "XA" -> "xa" [] s = "XB" -> "xb" [] s = "IA" -> "ia" [] s = "YA" -> "ya"
          [] s = "YB" -> "yb" [] s = "ZA" -> "za" [] s = "UA" -> "ua" [] s = "VA" -> "va"
          [] s = "WA" -> "wa" [] s = "QA" -> "qa"
          [] s = "T1" -> "t1" [] s = "T2" -> "t2" [] s = "T3" -> "t3" [] s = "T4" -> "t4"
          [] s = "T5" -> "t5" [] s = "T6" -> "t6" [] s = "T7" -> "t7" [] s = "T8" -> "t8"
          [] s = "T9" -> "t9" [] s = "T10" -> "t10"
          [] OTHER -> s]

normalize_str(s) == IF s \in DOMAIN Lower THEN Lower[s] ELSE s
normalize_album(album) == normalize_str(album)
normalize_artist(artist) == normalize_str(artist)
normalize_title(title) == normalize_str(title)

(***************************************************************************)
(* TracksDb.__init__: the one-shot load                                    *)
(***************************************************************************)
\* SELECT min(bpm), max(bpm) from tracks
min_bpm == CHOOSE b \in {Catalog[r].bpm : r \in RowIds} : \A r \in RowIds : b <= Catalog[r].bpm
bpm_range == (CHOOSE b \in {Catalog[r].bpm : r \in RowIds} : \A r \in RowIds : b >= Catalog[r].bpm) - min_bpm

\* The rows that are loaded, in table order (ignore = 1 is skipped).
RECURSIVE LoadedRows(_)
LoadedRows(r) ==
    IF r > Len(Catalog) THEN <<>>
    ELSE (IF Catalog[r].ignore = 1 THEN <<>> ELSE <<r>>) \o LoadedRows(r + 1)

\* genre_map: names in the order they are first met, <NoGenre> first; the id of a
\* name is its position minus one.
RECURSIVE AddGenres(_, _)
AddGenres(names, gs) ==
    IF gs = <<>> THEN names
    ELSE AddGenres(IF Head(gs) \in Range(names) THEN names ELSE Append(names, Head(gs)), Tail(gs))

RECURSIVE GenreNames(_, _)
GenreNames(names, rows) ==
    IF rows = <<>> THEN names
    ELSE GenreNames(AddGenres(names, Catalog[Head(rows)].genre), Tail(rows))

genre_names == GenreNames(<<NO_GENRE>>, LoadedRows(1))
GenreIds == 0..(Len(genre_names) - 1)
genre_map(g) == (CHOOSE i \in DOMAIN genre_names : genre_names[i] = g) - 1
InGenreMap(g) == g \in Range(genre_names)

\* The attribute vector of a row: bpm is min-max scaled, the last slot is the
\* genre difference (set by the caller).
Attribs(r, last) ==
    Catalog[r].attrs \o << ((Catalog[r].bpm - min_bpm) * Scale) \div bpm_range, last >>

IGenres(r) ==
    IF Len(Catalog[r].genre) > 0
    THEN [i \in DOMAIN Catalog[r].genre |-> genre_map(Catalog[r].genre[i])]
    ELSE <<0>>

\* A track record of track_list (without the `similarity` field, which is state).
Track(r) ==
    [file |-> Catalog[r].file, title |-> normalize_title(Catalog[r].title),
     artist |-> normalize_artist(Catalog[r].artist), album |-> normalize_album(Catalog[r].album),
     albumartist |-> normalize_artist(Catalog[r].albumartist),
     duration |-> Catalog[r].duration, rowid |-> r,
     genres |-> IF Len(Catalog[r].genre) > 0 THEN Catalog[r].genre ELSE <<NO_GENRE>>,
     igenres |-> IGenres(r)]

track_list == [p \in DOMAIN LoadedRows(1) |-> Track(LoadedRows(1)[p])]
NumTracks == Len(track_list)
Tracks == 1..NumTracks
\* The first twelve columns of attrib_list: never written after load.
attrib_list12 == [p \in Tracks |-> SubSeq(Attribs(track_list[p].rowid, 0), 1, Len(ESSENTIA_ATTRIBS))]
\* attribs.append(5): the placeholder in the genre column
GenrePlaceholder == 5 * Scale

\* config['genres'] after load: the groups as ids, unknown names dropped, empty
\* groups dropped.
RECURSIVE GroupIds(_)
GroupIds(g) ==
    IF g = <<>> THEN <<>>
    ELSE (IF InGenreMap(Head(g)) THEN <<genre_map(Head(g))>> ELSE <<>>) \o GroupIds(Tail(g))

RECURSIVE ConfigGroups(_)
ConfigGroups(gs) ==
    IF gs = <<>> THEN <<>>
    ELSE (IF Len(GroupIds(Head(gs))) > 0 THEN <<GroupIds(Head(gs))>> ELSE <<>>) \o ConfigGroups(Tail(gs))

config_genres == ConfigGroups(ConfigGenres)
all_genres == UNION {Range(config_genres[i]) : i \in DOMAIN config_genres}

\* all_genres of the remap: every id of every group kept.
AllGenresOf(groups) == UNION {Range(groups[i]) : i \in DOMAIN groups}

\* genre_group of the load loop, for groups of ids: the last group holding the genre.
GroupOf(groups, genre) ==
    LET hits == {i \in DOMAIN groups : genre \in Range(groups[i])}
    IN IF hits = {} THEN {}
       ELSE Range(groups[CHOOSE i \in hits : \A j \in hits : j <= i])

\* diff_map[ogenre] of the row of `genre`, in tenths, for config['genres'] = groups
\* and config['all_genres'] = all.
DiffValue(groups, all, genre, ogenre) ==
    IF ogenre = genre THEN 1
    ELSE IF ogenre \in GroupOf(groups, genre) THEN 2
    ELSE IF genre \notin all /\ ogenre \notin all THEN 2
    ELSE 4

GenreGroup(genre) == GroupOf(config_genres, genre)

\* genre_differences[genre][ogenre], in tenths, after a load with ConfigGenres
genre_differences(genre, ogenre) == DiffValue(config_genres, all_genres, genre, ogenre)

(***************************************************************************)
(* TracksDb.get: the point lookup by file.  It reads the table, so it also *)
(* finds a row marked ignore; a genre name that is not in genre_map raises *)
(* KeyError, which the handler turns into None.                            *)
(***************************************************************************)
get(path) ==
    LET hits == {r \in RowIds : Catalog[r].file = path}
    IN IF hits = {} THEN Nothing
       ELSE LET r == CHOOSE x \in hits : \A y \in hits : x <= y
            IN IF \E i \in DOMAIN Catalog[r].genre : ~InGenreMap(Catalog[r].genre[i])
               THEN Nothing
               ELSE Some(r)

\* The details dict get() returns for row r; attribs has 0 in the genre slot.
Details(r) ==
    [file |-> Catalog[r].file, title |-> normalize_title(Catalog[r].title),
     artist |-> normalize_artist(Catalog[r].artist), album |-> normalize_album(Catalog[r].album),
     albumartist |-> normalize_artist(Catalog[r].albumartist),
     duration |-> Catalog[r].duration, rowid |-> r,
     genres |-> IF Len(Catalog[r].genre) > 0 THEN Catalog[r].genre ELSE <<NO_GENRE>>,
     igenres |-> IGenres(r), attribs |-> Attribs(r, 0)]

EntryOfRow == [r \in RowIds |-> Details(r)]
Entry(r) == EntryOfRow[r]

(***************************************************************************)
(* Distances and similarities                                              *)
(***************************************************************************)
RECURSIVE SumSq(_, _, _)
SumSq(a, b, i) == IF i > Len(a) THEN 0 ELSE (a[i] - b[i]) * (a[i] - b[i]) + SumSq(a, b, i + 1)

\* (10 * euclidean distance)^2 between the query point (the attribs of seed row r,
\* genre slot 0) and track p, whose genre column holds col[p]: the twelve columns
\* that never change, plus the genre column.
AttribDist2 ==
    [r \in RowIds |-> [p \in Tracks |->
        SumSq(SubSeq(Entry(r).attribs, 1, Len(ESSENTIA_ATTRIBS)), attrib_list12[p], 1)]]

Dist2(r, col, p) ==
    AttribDist2[r][p]
      + (Entry(r).attribs[Len(ESSENTIA_ATTRIBS) + 1] - col[p])
        * (Entry(r).attribs[Len(ESSENTIA_ATTRIBS) + 1] - col[p])

\* similarity(a) - similarity(b) > n/d, for similarities sqrt(Da/SimDen) and
\* sqrt(Db/SimDen): d*sqrt(Da) > n*sqrt(SimDen) + d*sqrt(Db), squared twice.
SimDiffGreater(Da, Db, n, d) ==
    LET A == d * d * Da
        B == d * d * Db
        C == n * n * SimDen
    IN A - B - C > 0 /\ (A - B - C) * (A - B - C) > 4 * C * B

\* The orders in which the k-d tree may return the points of S: ascending
\* distance, equal distances in any order.
RECURSIVE Orders(_, _)
Orders(S, D) ==
    IF S = {} THEN {<<>>}
    ELSE LET M == {p \in S : \A o \in S : D[p] <= D[o]}
         IN UNION {{<<p>> \o rest : rest \in Orders(S \ {p}, D)} : p \in M}

\* sorted(list, key=similarity), a stable sort: the place of an item is one more
\* than the number of items that go before it, which are those of a smaller
\* similarity and those of the same similarity that stood before it.
SortRank(list, sim, i) ==
    1 + Cardinality({j \in DOMAIN list :
            \/ sim[list[j]] < sim[list[i]]
            \/ sim[list[j]] = sim[list[i]] /\ j < i})

SortBySim(list, sim) ==
    [r \in DOMAIN list |-> list[CHOOSE i \in DOMAIN list : SortRank(list, sim, i) = r]]

(***************************************************************************)
(* lib/filters.py is not part of the sources at hand: its functions follow *)
(* the specification's description of the buckets (section 4.5).           *)
(***************************************************************************)
\* Shares an artist, or (also) an album, with one of the first max_check entries.
same_artist_or_album(entries, track, check_album_only, max_check) ==
    \E i \in DOMAIN entries :
        /\ (max_check = 0 \/ i <= max_check)
        /\ \/ (~check_album_only /\ entries[i].artist = track.artist)
           \/ entries[i].album = track.album

match_artist(artists, track) == track.artist \in Range(artists)
match_album(albums, track) == track.album \in Range(albums)
match_title(titles, track) == track.title \in Range(titles)
ChristmasWords == {"christmas", "xmas", "noel", "advent", "holiday"}
is_christmas(track) == track.title \in ChristmasWords \/ track.album \in ChristmasWords
\* The candidate's primary genre is in the groups the seeds hit.
genre_matches(seed_genres, track) == track.genres[1] \in Range(seed_genres)

(***************************************************************************)
(* Requests                                                                *)
(***************************************************************************)
Paths == {Catalog[r].file : r \in RowIds} \cup {UnknownPath}

Request(kind, track, previous, count, shuffle, filtergenre, min, max, exclude, matchallgenres) ==
    [kind |-> kind, track |-> track, previous |-> previous, count |-> count,
     shuffle |-> shuffle, filtergenre |-> filtergenre, min |-> min, max |-> max,
     exclude |-> exclude, excludealbum |-> <<>>, filterxmas |-> "0", month |-> 7,
     matchallgenres |-> matchallgenres]

\* count = int(get_value(params, 'count', DEFAULT_TRACKS_TO_RETURN)), clamped
Count(rq) ==
    LET count == IF rq.count = Nothing THEN DEFAULT_TRACKS_TO_RETURN ELSE Get(rq.count)
    IN IF count < MIN_TRACKS_TO_RETURN THEN MIN_TRACKS_TO_RETURN
       ELSE IF count > MAX_TRACKS_TO_RETURN THEN MAX_TRACKS_TO_RETURN
       ELSE count

\* shuffle = get_value(params, 'shuffle', '1')=='1'
Shuffle(rq) == (IF rq.shuffle = None THEN "1" ELSE rq.shuffle) = "1"
match_genre(rq) == rq.filtergenre = "1"
\* exclude_christmas: filterxmas=1 and datetime.now().month != 12
exclude_christmas(rq) == rq.filterxmas = "1" /\ rq.month # 12
\* similarity_count = int(count * SHUFFLE_FACTOR) if shuffle else count
similarity_count(rq) == IF Shuffle(rq) THEN Count(rq) * SHUFFLE_FACTOR ELSE Count(rq)
\* MAX_SIM_RANGE = 0.5 and the alternates' range 0.25, as fractions
MAX_SIM_RANGE == <<1, 2>>
ALT_SIM_RANGE == <<1, 4>>

\* The entries of the paths that db.get finds, in order.
RECURSIVE Resolve(_)
Resolve(paths) ==
    IF paths = <<>> THEN <<>>
    ELSE get(Head(paths)) \o Resolve(Tail(paths))

RECURSIVE AppendNew(_, _)
AppendNew(list, xs) ==
    IF xs = <<>> THEN list
    ELSE AppendNew(IF Head(xs) \in Range(list) THEN list ELSE Append(list, Head(xs)), Tail(xs))

Entries(rows) == [i \in DOMAIN rows |-> Entry(rows[i])]
Titles(rows) == [i \in DOMAIN rows |-> Entry(rows[i]).title]
NormArtists(list) == [i \in DOMAIN list |-> normalize_artist(list[i])]
NormAlbums(list) == [i \in DOMAIN list |-> normalize_album(list[i])]

\* seed_genres: the handler looks the seed's genre NAMES up in cfg['genres'], which
\* the load has already rewritten to groups of integer ids, so no group ever
\* matches and the list stays empty.
seed_genres == <<>>

(***************************************************************************)
(* The candidate scan of one seed (similar_api, the loop over resp)        *)
(***************************************************************************)
TrackRecs(list) == [i \in DOMAIN list |-> track_list[list[i]]]

ScanInit(l) ==
    [similar_tracks |-> l.similar_tracks, fs |-> l.filtered_by_seeds_tracks,
     fc |-> l.filtered_by_current_tracks, fp |-> l.filtered_by_previous_tracks,
     matched |-> l.matched_artists, titles |-> l.current_titles,
     similar_recs |-> TrackRecs(l.similar_tracks),
     accepted |-> 0, first_sim |-> NoSim, stop |-> FALSE]

\* The branch taken for `track`, whose similarity is s.
Bucket(st, track, s, rq, l) ==
    IF st.first_sim # NoSim /\ SimDiffGreater(s, st.first_sim, MAX_SIM_RANGE[1], MAX_SIM_RANGE[2])
      THEN "break"
    ELSE IF match_genre(rq) /\ ~l.mag /\ ~genre_matches(seed_genres, track)
      THEN "DISCARD(genre)"
    ELSE IF exclude_christmas(rq) /\ is_christmas(track) THEN "DISCARD(xmas)"
    ELSE IF Len(rq.exclude) > 0 /\ match_artist(NormArtists(rq.exclude), track)
      THEN "DISCARD(artist)"
    ELSE IF Len(rq.excludealbum) > 0 /\ match_album(NormAlbums(rq.excludealbum), track)
      THEN "DISCARD(album)"
    ELSE IF same_artist_or_album(l.seed_entries, track, FALSE, 0) THEN "FILTERED(seeds)"
    ELSE IF same_artist_or_album(st.similar_recs, track, FALSE, 0)
      THEN "FILTERED(current)"
    ELSE IF same_artist_or_album(l.previous_entries, track, FALSE, NUM_PREV_TRACKS_FILTER_ARTIST)
      THEN "FILTERED(previous)"
    ELSE IF same_artist_or_album(l.previous_entries, track, TRUE, NUM_PREV_TRACKS_FILTER_ALBUM)
      THEN "FILTERED(previous)"
    ELSE IF match_title(st.titles, track) THEN "FILTERED(previous)"
    ELSE "USABLE"

\* matched_artists: a dict in insertion order, kept as a sequence of
\* [artist, similarity, tracks, pos]; pos counts from 1.
HasArtist(matched, artist) == \E i \in DOMAIN matched : matched[i].artist = artist
ArtistAt(matched, artist) == CHOOSE i \in DOMAIN matched : matched[i].artist = artist

\* What branch b does with track p (record `track`, similarity s); st1 is st with
\* first_sim set.
Classify(st, st1, b, p, track, s, rq) ==
    CASE b = "break" -> [st EXCEPT !.stop = TRUE]
      [] b = "FILTERED(seeds)" -> [st1 EXCEPT !.fs = Append(@, p)]
      [] b = "FILTERED(current)" ->
           [st1 EXCEPT !.fc = Append(@, p),
                       !.matched =
                           IF HasArtist(@, track.artist)
                              /\ ~SimDiffGreater(s, @[ArtistAt(@, track.artist)].similarity,
                                                 ALT_SIM_RANGE[1], ALT_SIM_RANGE[2])
                           THEN [@ EXCEPT ![ArtistAt(@, track.artist)].tracks = Append(@, p)]
                           ELSE @]
      [] b = "FILTERED(previous)" -> [st1 EXCEPT !.fp = Append(@, p)]
      [] b = "USABLE" ->
           [st1 EXCEPT !.similar_tracks = Append(@, p),
                       !.similar_recs = Append(@, track),
                       !.matched =
                           IF HasArtist(@, track.artist)
                           THEN [@ EXCEPT ![ArtistAt(@, track.artist)] =
                                    [artist |-> track.artist, similarity |-> s,
                                     tracks |-> <<p>>, pos |-> Len(st.similar_tracks) + 1]]
                           ELSE Append(@, [artist |-> track.artist, similarity |-> s,
                                           tracks |-> <<p>>, pos |-> Len(st.similar_tracks) + 1]),
                       !.titles = Append(@, track.title),
                       !.accepted = @ + 1,
                       !.stop = (st.accepted + 1 >= similarity_count(rq))]
      [] OTHER -> st1

ScanTrack(st, p, track, s, rq, l) ==
    Classify(st, IF st.first_sim = NoSim THEN [st EXCEPT !.first_sim = s] ELSE st,
             Bucket(st, track, s, rq, l), p, track, s, rq)

RECURSIVE ScanResp(_, _, _, _, _)
ScanResp(st, resp, sim, rq, l) ==
    IF resp = <<>> \/ st.stop THEN st
    ELSE ScanResp(ScanTrack(st, Head(resp), track_list[Head(resp)], sim[Head(resp)], rq, l),
                  Tail(resp), sim, rq, l)

(***************************************************************************)
(* After the scans: alternates, backfill, final ordering                   *)
(***************************************************************************)
\* similar_tracks[pos] = random.choice(tracks) for every artist with more than one
\* track: the lists this can leave.
RECURSIVE ChooseAlternates(_, _, _)
ChooseAlternates(similar, matched, i) ==
    IF i > Len(similar) THEN {<<>>}
    ELSE LET as == {a \in DOMAIN matched : matched[a].pos = i /\ Len(matched[a].tracks) > 1}
             choices == IF as = {} THEN {similar[i]}
                        ELSE UNION {Range(matched[a].tracks) : a \in as}
         IN {<<c>> \o rest : c \in choices, rest \in ChooseAlternates(similar, matched, i + 1)}

min_count == 2

TopUp(similar, filtered, sim) ==
    IF Len(similar) < min_count /\ Len(filtered) > 0
    THEN similar \o Take(SortBySim(filtered, sim), min_count - Len(similar))
    ELSE similar

\* Mutant: the tracks filtered for the seeds are not drawn on.
Backfill_NoSeedsList(similar, l, sim) ==
    TopUp(TopUp(similar, l.filtered_by_previous_tracks, sim),
          l.filtered_by_current_tracks, sim)

Backfill(similar, l, sim) ==
    TopUp(TopUp(TopUp(similar, l.filtered_by_previous_tracks, sim),
                l.filtered_by_current_tracks, sim),
          l.filtered_by_seeds_tracks, sim)

Shuffles(list) ==
    {[i \in DOMAIN list |-> list[f[i]]] : f \in Permutations(DOMAIN list)}

\* The first n items of the shuffles of list: its items at n different places.
ShuffledHeads(list, n) ==
    {[i \in 1..n |-> list[f[i]]] :
        f \in {g \in [1..n -> DOMAIN list] : \A i, j \in 1..n : i # j => g[i] # g[j]}}

\* sorted by similarity and cut to similarity_count
TopTracks(similar, rq, sim) == Take(SortBySim(similar, sim), similarity_count(rq))

\* Mutant: the cut to count after the shuffle is missing.
FinalLists_NoCutAfterShuffle(top, rq) ==
    IF Shuffle(rq) THEN Shuffles(top) ELSE {top}

FinalLists(top, rq) ==
    IF Shuffle(rq) THEN ShuffledHeads(top, Min(Count(rq), Len(top))) ELSE {top}

(***************************************************************************)
(* State                                                                   *)
(***************************************************************************)
VARIABLES
    cfg_file,         \* the `genres` of the configuration file as read: Nothing (no
                      \* key) or Some(groups of names); never written
    cfg_genres,       \* config['genres']: as read, then the groups as ids
    cfg_all_genres,   \* config['all_genres']: Nothing (no key) or Some(set of ids)
    genre_diff,       \* TracksDb.genre_differences: the rows built so far, row of id
                      \* g at g + 1
    load_pc,          \* where the load of TracksDb.__init__ is
    cfg_ignoregenre,  \* config['ignoregenre']: None (no key), "*", or "list"
    last_call,        \* TracksDb.last_call: Nothing, or Some([igenre, match_all_genres, tree])
    attrib13,         \* the genre column of TracksDb.attrib_list, per track
    similarity,       \* the `similarity` key of the shared records of track_list, as D
    pc,               \* where each request worker is
    req,              \* the request a worker serves
    loc,              \* the locals of the handler and of get_similar_tracks; with the
                      \* history of the running call: prev (the key of the call before
                      \* it), wrote (it wrote the genre column), built (it built a tree)
    response,         \* what the worker has answered: [status, tracks], status 0 before
    prev_key,         \* history: the (match_all_genres, igenre) of the latest call
    first             \* history: a finished request kept for comparison

load_vars == <<cfg_file, cfg_genres, cfg_all_genres, genre_diff, load_pc>>

vars == <<load_vars, cfg_ignoregenre, last_call, attrib13, similarity, pc, req, loc, response, prev_key, first>>

Workers == {1, 2}

NoLoc ==
    [seeds |-> <<>>, previous |-> <<>>, seed_entries |-> <<>>, previous_entries |-> <<>>,
     skip_rows |-> <<>>, current_titles |-> <<>>,
     similar_tracks |-> <<>>, filtered_by_seeds_tracks |-> <<>>,
     filtered_by_current_tracks |-> <<>>, filtered_by_previous_tracks |-> <<>>,
     matched_artists |-> <<>>, si |-> 0, seed |-> 0, mag |-> FALSE, i |-> 0,
     resp |-> <<>>, prev |-> Nothing, wrote |-> FALSE, built |-> FALSE]

NoRequest == Request("none", Nothing, Nothing, Nothing, None, "0", 0, 0, <<>>, "0")
NoResponse == [status |-> 0, tracks |-> <<>>]
Response(status, tracks) == [status |-> status, tracks |-> tracks]

TypeOK ==
    /\ cfg_ignoregenre \in {None, "*", "list"}
    /\ attrib13 \in [Tracks -> {0, 1, 2, 4, GenrePlaceholder}]
    /\ \A w \in Workers :
          pc[w] \in {"idle", "gst", "rewrite", "build", "query", "scan", "dumpout", "finish", "done"}

\* The rows of genre_differences for config['genres'] = groups, all_genres = all.
DiffRow(groups, all, genre) == [ogenre \in GenreIds |-> DiffValue(groups, all, genre, ogenre)]

\* The load has run with ConfigGenres as the `genres` of the configuration file.
Loaded ==
    /\ cfg_file = Some(ConfigGenres)
    /\ cfg_genres = Some(config_genres)
    /\ cfg_all_genres = Some(all_genres)
    /\ genre_diff = [g \in 1..Len(genre_names) |-> DiffRow(config_genres, all_genres, g - 1)]
    /\ load_pc = "done"

\* No request has been served yet.
InitServing ==
    /\ last_call = Nothing
    /\ attrib13 = [p \in Tracks |-> GenrePlaceholder]
    /\ similarity = [p \in Tracks |-> NoSim]
    /\ pc = [w \in Workers |-> "idle"]
    /\ req = [w \in Workers |-> NoRequest]
    /\ loc = [w \in Workers |-> NoLoc]
    /\ response = [w \in Workers |-> NoResponse]
    /\ prev_key = Nothing
    /\ first = Nothing

InitShared ==
    /\ Loaded
    /\ InitServing

(***************************************************************************)
(* TracksDb.__init__, the genre part of the load, for any configuration    *)
(* file: `genres` absent, or groups of names in which a name is in at most *)
(* one group.  The tracks are those of Catalog.                            *)
(***************************************************************************)
GroupNames == {"Rock", "Metal", "Pop", "Jazz"}
NameGroups ==
    {g \in SeqsUpTo(GroupNames, 1, MaxGroupLen) : \A i, j \in DOMAIN g : i # j => g[i] # g[j]}
ConfigFiles ==
    {Nothing} \cup
    {Some(c) : c \in {c \in SeqsUpTo(NameGroups, 0, MaxGroups) :
                         \A i, j \in DOMAIN c : i # j => Range(c[i]) \cap Range(c[j]) = {}}}

\* read_config: with `genres`, all_genres is the list of the names in the groups;
\* without it no all_genres key is set.
InitLoad ==
    /\ cfg_file \in ConfigFiles
    /\ cfg_genres = cfg_file
    /\ cfg_all_genres =
          IF cfg_file = Nothing THEN Nothing ELSE Some(AllGenresOf(Get(cfg_file)))
    /\ genre_diff = <<>>
    /\ load_pc = "genres"
    /\ cfg_ignoregenre = None
    /\ InitServing

\* `# Update config item genres from strings to ints`
LoadRemap ==
    /\ load_pc = "genres"
    /\ IF cfg_genres = Nothing
       THEN UNCHANGED <<cfg_genres, cfg_all_genres>>
       ELSE /\ cfg_genres' = Some(ConfigGroups(Get(cfg_genres)))
            /\ cfg_all_genres' = Some(AllGenresOf(ConfigGroups(Get(cfg_genres))))
    /\ load_pc' = "rows"
    /\ UNCHANGED <<cfg_file, genre_diff, cfg_ignoregenre, last_call, attrib13, similarity,
                   pc, req, loc, response, prev_key, first>>

\* One turn of `for genre in range(len(TracksDb.genre_map))`: the row of the next
\* genre; config['all_genres'] raises KeyError when the key is not there.
LoadRow ==
    /\ load_pc = "rows"
    /\ IF cfg_all_genres = Nothing
       THEN /\ load_pc' = "KeyError"
            /\ UNCHANGED genre_diff
       ELSE /\ genre_diff' = Append(genre_diff,
                                    DiffRow(Get(cfg_genres), Get(cfg_all_genres), Len(genre_diff)))
            /\ load_pc' = IF Len(genre_diff) + 1 = Len(genre_names) THEN "done" ELSE "rows"
    /\ UNCHANGED <<cfg_file, cfg_genres, cfg_all_genres, cfg_ignoregenre, last_call, attrib13,
                   similarity, pc, req, loc, response, prev_key, first>>

NextLoad ==
    \/ LoadRemap
    \/ LoadRow

SpecLoad == InitLoad /\ [][NextLoad]_vars

(***************************************************************************)
(* similar_api                                                             *)
(***************************************************************************)
\* The head of `for seed in seed_track_db_entries` with l.si the seed to serve:
\* past the last seed the handler goes on to the alternates; otherwise it works out
\* match_all_genres and calls get_similar_tracks.  A list-valued ignoregenre reads
\* seed['artist.orig'], a key get() does not set: KeyError, HTTP 500.
SeedLoop(l) ==
    IF l.si > Len(l.seeds) THEN [pc |-> "finish", loc |-> l, response |-> NoResponse]
    ELSE IF cfg_ignoregenre = "list"
      THEN [pc |-> "done", loc |-> l, response |-> Response(500, <<>>)]
    ELSE [pc |-> "gst",
          loc |-> [l EXCEPT !.seed = l.seeds[l.si], !.mag = (cfg_ignoregenre = "*")],
          response |-> NoResponse]

\* Worker w goes where n says.
Goto(w, n) ==
    /\ pc' = [pc EXCEPT ![w] = n.pc]
    /\ loc' = [loc EXCEPT ![w] = n.loc]
    /\ response' = [response EXCEPT ![w] = n.response]

\* The handler's locals once the seeds and the previous tracks are resolved.
ResolvedLoc(seeds, previous) ==
    [NoLoc EXCEPT !.seeds = seeds,
                  !.previous = previous,
                  !.seed_entries = Entries(seeds),
                  !.previous_entries = Entries(previous),
                  !.skip_rows = AppendNew(seeds, previous),
                  !.current_titles = Titles(seeds) \o Titles(previous),
                  !.si = 1]

SimilarStart(w, rq) ==
    /\ pc[w] = "idle"
    /\ rq.kind = "similar"
    /\ req' = [req EXCEPT ![w] = rq]
    /\ IF rq.track = Nothing
       THEN Goto(w, [pc |-> "done", loc |-> NoLoc, response |-> Response(400, <<>>)])
       ELSE Goto(w, SeedLoop(ResolvedLoc(Resolve(Get(rq.track)),
                                         IF rq.previous = Nothing THEN <<>>
                                         ELSE Resolve(Get(rq.previous)))))
    /\ UNCHANGED <<load_vars, cfg_ignoregenre, last_call, attrib13, similarity, prev_key, first>>

\* for track in resp: ... (one seed's candidates), then on to the next seed
\* The handler's locals after the scan of one seed's candidates ended in st;
\* resp is not read again before the next seed's query replaces it.
ScannedLoc(l, st) ==
    [l EXCEPT !.resp = <<>>,
              !.similar_tracks = st.similar_tracks,
              !.filtered_by_seeds_tracks = st.fs,
              !.filtered_by_current_tracks = st.fc,
              !.filtered_by_previous_tracks = st.fp,
              !.matched_artists = st.matched,
              !.current_titles = st.titles,
              !.si = @ + 1]

Scan(w) ==
    /\ pc[w] = "scan"
    /\ Goto(w, SeedLoop(ScannedLoc(loc[w],
            ScanResp(ScanInit(loc[w]), loc[w].resp, similarity, req[w], loc[w]))))
    /\ UNCHANGED <<load_vars, cfg_ignoregenre, last_call, attrib13, similarity, req, prev_key, first>>

\* alternates, backfill, sort, truncate, shuffle, answer
Finish(w) ==
    /\ pc[w] = "finish"
    /\ \E chosen \in ChooseAlternates(loc[w].similar_tracks, loc[w].matched_artists, 1) :
       \E top \in {TopTracks(Backfill(chosen, loc[w], similarity), req[w], similarity)} :
       \E out \in FinalLists(top, req[w]) :
          response' = [response EXCEPT ![w] = Response(200, out)]
    /\ pc' = [pc EXCEPT ![w] = "done"]
    /\ UNCHANGED <<load_vars, cfg_ignoregenre, last_call, attrib13, similarity, req, loc, prev_key, first>>

\* The response is sent; the worker takes the next request.
Return(w) ==
    /\ pc[w] = "done"
    /\ pc' = [pc EXCEPT ![w] = "idle"]
    /\ req' = [req EXCEPT ![w] = NoRequest]
    /\ loc' = [loc EXCEPT ![w] = NoLoc]
    /\ response' = [response EXCEPT ![w] = NoResponse]
    /\ UNCHANGED <<load_vars, cfg_ignoregenre, last_call, attrib13, similarity, prev_key, first>>

(***************************************************************************)
(* dump_api                                                                *)
(***************************************************************************)
DumpStart(w, rq) ==
    /\ pc[w] = "idle"
    /\ rq.kind = "dump"
    /\ req' = [req EXCEPT ![w] = rq]
    /\ IF rq.track = Nothing
         THEN Goto(w, [pc |-> "done", loc |-> NoLoc, response |-> Response(400, <<>>)])
       ELSE IF Len(Get(rq.track)) # 1
         THEN Goto(w, [pc |-> "done", loc |-> NoLoc, response |-> Response(400, <<>>)])
       ELSE IF get(Get(rq.track)[1]) = Nothing
         THEN Goto(w, [pc |-> "done", loc |-> NoLoc, response |-> Response(404, <<>>)])
       ELSE Goto(w, [pc |-> "gst",
                     loc |-> [NoLoc EXCEPT !.seed = Get(get(Get(rq.track)[1])),
                                           !.mag = (rq.matchallgenres = "1")],
                     response |-> NoResponse])
    /\ UNCHANGED <<load_vars, cfg_ignoregenre, last_call, attrib13, similarity, prev_key, first>>

\* tracks = tracks[:count]; return json.dumps(tracks)
DumpRespond(w) ==
    /\ pc[w] = "dumpout"
    /\ response' = [response EXCEPT ![w] =
          Response(200, Take(loc[w].resp,
                             IF req[w].count = Nothing THEN 50000 ELSE Get(req[w].count)))]
    /\ pc' = [pc EXCEPT ![w] = "done"]
    /\ UNCHANGED <<load_vars, cfg_ignoregenre, last_call, attrib13, similarity, req, loc, prev_key, first>>

(***************************************************************************)
(* TracksDb.get_similar_tracks(seed, match_all_genres)                     *)
(***************************************************************************)
SeedGenre(l) == Entry(l.seed).igenres[1]
Key(l) == Some(<<l.mag, SeedGenre(l)>>)

\* Mutant: every match_all_genres call rebuilds.
NeedsRebuild_AlwaysForAll(l) ==
    \/ last_call = Nothing
    \/ l.mag
    \/ (~l.mag /\ Get(last_call).igenre # SeedGenre(l))

\* The condition of `# Rebuild tree, if required`
NeedsRebuild(l) ==
    \/ last_call = Nothing
    \/ (l.mag /\ ~Get(last_call).match_all_genres)
    \/ (~l.mag /\ Get(last_call).igenre # SeedGenre(l))

GstCheck(w) ==
    /\ pc[w] = "gst"
    /\ pc' = [pc EXCEPT ![w] =
                 IF ~NeedsRebuild(loc[w]) THEN "query"
                 ELSE IF NumTracks = 0 THEN "build" ELSE "rewrite"]
    /\ loc' = [loc EXCEPT ![w].i = 1, ![w].prev = prev_key,
                          ![w].wrote = FALSE, ![w].built = FALSE]
    /\ prev_key' = Key(loc[w])
    /\ UNCHANGED <<load_vars, cfg_ignoregenre, last_call, attrib13, similarity, req, response, first>>

\* The value one turn of `for i in range(len(TracksDb.track_list))` writes
GenreAttrib(l, i) ==
    IF l.mag THEN 0 ELSE genre_differences(SeedGenre(l), track_list[i].igenres[1])

\* The next `turns` turns of the loop (to its end at most): a lone worker runs the
\* loop through in one step, workers that share the process take it turn by turn.
GstRewrite(w, turns) ==
    /\ pc[w] = "rewrite"
    /\ LET to == Min(loc[w].i + turns - 1, NumTracks)
       IN /\ attrib13' = [p \in Tracks |->
                             IF p >= loc[w].i /\ p <= to THEN GenreAttrib(loc[w], p)
                             ELSE attrib13[p]]
          /\ loc' = [loc EXCEPT ![w].i = to + 1, ![w].wrote = TRUE]
          /\ pc' = [pc EXCEPT ![w] = IF to = NumTracks THEN "build" ELSE "rewrite"]
    /\ UNCHANGED <<load_vars, cfg_ignoregenre, last_call, similarity, req, response, prev_key, first>>

\* TracksDb.last_call = {..., 'tree': cKDTree(TracksDb.attrib_list)}
GstBuild(w) ==
    /\ pc[w] = "build"
    /\ last_call' = Some([igenre |-> SeedGenre(loc[w]), match_all_genres |-> loc[w].mag,
                          tree |-> attrib13])
    /\ loc' = [loc EXCEPT ![w].built = TRUE]
    /\ pc' = [pc EXCEPT ![w] = "query"]
    /\ UNCHANGED <<load_vars, cfg_ignoregenre, attrib13, similarity, req, response, prev_key, first>>

\* The entries the loop over indexes[0] collects from one order of the k nearest:
\* k = count + num_skip results come back, the first is passed over.
QueryEntries(order) ==
    LET k == NUM_NEIGHBOURS + 0
        n == Min(k, NumTracks)
    IN [i \in 1..(n - 1) |-> order[i + 1]]

\* tree.query, then entry['similarity'] = distances[0][i]/max_sim on the shared
\* records.  The tree keeps a reference to attrib_list: when the column has been
\* written since the build, the distances may come from either.
GstQuery(w) ==
    /\ pc[w] = "query"
    /\ \E col \in {Get(last_call).tree, attrib13} :
          \E D \in {[p \in Tracks |-> Dist2(loc[w].seed, col, p)]} :
             \E order \in Orders(Tracks, D) :
                \E entries \in {QueryEntries(order)} :
                   /\ similarity' = [p \in Tracks |->
                                        IF p \in Range(entries) THEN D[p] ELSE similarity[p]]
                   /\ loc' = [loc EXCEPT ![w].resp = entries]
    /\ pc' = [pc EXCEPT ![w] = IF req[w].kind = "dump" THEN "dumpout" ELSE "scan"]
    /\ UNCHANGED <<load_vars, cfg_ignoregenre, last_call, attrib13, req, response, prev_key, first>>

(***************************************************************************)
(* The requests explored, and the specifications                           *)
(***************************************************************************)
SeedPaths == {"x1.mp3", "x2.mp3", UnknownPath}
PrevPaths == {"y1.mp3"}
ClusterArtists == [i \in 1..17 |-> Catalog[10 + i].artist]
NonXY == <<"Z", "U", "V", "W", "Q">> \o ClusterArtists
AllOthers == <<"Y", "Z", "U", "V", "W", "Q">> \o ClusterArtists
TrackLists == {Nothing} \cup {Some(t) : t \in SeqsUpTo(SeedPaths, 1, MaxSeeds)}
PreviousLists == {Nothing} \cup {Some(t) : t \in SeqsUpTo(PrevPaths, 1, MaxPrev)}

\* /api/similar with shuffle=0
SimilarRequests ==
    {Request("similar", track, previous, Nothing, "0", "0", d[1], d[2], exclude, "0") :
        track \in TrackLists, previous \in PreviousLists,
        d \in {<<0, 0>>, <<150, 250>>}, exclude \in {<<>>, NonXY, AllOthers}}

DumpRequests ==
    {Request("dump", Some(<<t>>), Nothing, Nothing, None, "0", 0, 0, <<>>, m) :
        t \in {"x1.mp3", UnknownPath}, m \in {"0", "1"}}

\* What a worker does once it has a request; `turns` as in GstRewrite.
Step(w, turns) ==
    \/ GstCheck(w)
    \/ GstRewrite(w, turns)
    \/ GstBuild(w)
    \/ GstQuery(w)
    \/ Scan(w)
    \/ Finish(w)
    \/ DumpRespond(w)
    \/ Return(w)

\* History: keep the first answered /api/similar request with shuffle off.
Keep(w) ==
    /\ pc[w] = "done"
    /\ first = Nothing
    /\ req[w].kind = "similar" /\ ~Shuffle(req[w])
    /\ first' = Some([req |-> req[w], response |-> response[w]])
    /\ UNCHANGED <<load_vars, cfg_ignoregenre, last_call, attrib13, similarity, pc, req, loc, response, prev_key>>

Init ==
    /\ cfg_ignoregenre \in {None, "*", "list"}
    /\ InitShared

\* One worker serving one request after another.
Next ==
    \/ \E rq \in SimilarRequests : SimilarStart(1, rq)
    \/ \E rq \in DumpRequests : DumpStart(1, rq)
    \/ Step(1, NumTracks)

Spec == Init /\ [][Next]_vars

\* get_similar_tracks called for seeds of several primary genres, with and without
\* match_all_genres (through /api/dump, which hands both to the engine).
CallPaths == {"x1.mp3", "y2.mp3", "z.mp3", "w.mp3", "ig.mp3", UnknownPath}
CallRequests ==
    {Request("dump", Some(<<t>>), Nothing, count, None, "0", 0, 0, <<>>, m) :
        t \in CallPaths, m \in {"0", "1"}, count \in {Nothing, Some(3)}}

NextCalls ==
    \/ \E rq \in CallRequests : DumpStart(1, rq)
    \/ GstCheck(1)
    \/ GstRewrite(1, NumTracks)
    \/ GstBuild(1)
    \/ GstQuery(1)
    \/ DumpRespond(1)
    \/ Return(1)

SpecCalls == Init /\ [][NextCalls]_vars

\* Two workers in one process (Flask serves each request on its own thread), both
\* calling the engine.  The rewrite loop is taken in three steps, so the workers
\* interleave at two points inside it (a subset of the interleavings of the turns).
ConcRequests ==
    {Request("dump", Some(<<t>>), Nothing, Nothing, None, "0", 0, 0, <<>>, m) :
        t \in {"x1.mp3"}, m \in {"0", "1"}}

ConcTurns == (NumTracks + 2) \div 3

\* /api/dump does not read config['ignoregenre'].
InitConc ==
    /\ cfg_ignoregenre = None
    /\ InitShared

NextConc ==
    \E w \in Workers :
        \/ \E rq \in ConcRequests : DumpStart(w, rq)
        \/ GstCheck(w)
        \/ GstRewrite(w, ConcTurns)
        \/ GstBuild(w)
        \/ GstQuery(w)
        \/ DumpRespond(w)
        \/ Return(w)

SpecConc == InitConc /\ [][NextConc]_vars

\* One worker; the first answered /api/similar request is kept, so that a later
\* identical one can be compared with it.
RepeatRequests ==
    {Request("similar", Some(<<"x1.mp3">>), Nothing, Nothing, "0", "0", 0, 0, <<"Y">>, "0")}
      \cup {Request("dump", Some(<<t>>), Nothing, Nothing, None, "0", 0, 0, <<>>, m) :
                t \in {"x1.mp3", "z.mp3"}, m \in {"0", "1"}}

NextRepeat ==
    \/ \E rq \in RepeatRequests : SimilarStart(1, rq)
    \/ \E rq \in RepeatRequests : DumpStart(1, rq)
    \/ Step(1, NumTracks)
    \/ Keep(1)

SpecRepeat == Init /\ [][NextRepeat]_vars

\* /api/similar with `count` absent, below and above the limits, shuffle on and off.
CountRequests ==
    {Request("similar", Some(t), Nothing, count, shuffle, "0", 0, 0, exclude, "0") :
        t \in {<<"x1.mp3">>, <<"x1.mp3", "x2.mp3">>},
        count \in {Nothing, Some(3), Some(60)},
        shuffle \in {None, "0"},
        exclude \in {ClusterArtists, AllOthers}}

NextCount ==
    \/ \E rq \in CountRequests : SimilarStart(1, rq)
    \/ GstCheck(1)
    \/ GstRewrite(1, NumTracks)
    \/ GstBuild(1)
    \/ GstQuery(1)
    \/ Scan(1)
    \/ Finish(1)
    \/ Return(1)

SpecCount == Init /\ [][NextCount]_vars

\* /api/similar for a seed with sixteen usable tracks in range, which is more than
\* three times the smallest count; shuffle on and off.
FactorRequests ==
    {Request("similar", Some(<<"c0.mp3">>), Nothing, Nothing, shuffle, "0", 0, 0, <<>>, "0") :
        shuffle \in {None, "0"}}

NextFactor ==
    \/ \E rq \in FactorRequests : SimilarStart(1, rq)
    \/ GstCheck(1)
    \/ GstRewrite(1, NumTracks)
    \/ GstBuild(1)
    \/ GstQuery(1)
    \/ Scan(1)
    \/ Finish(1)
    \/ Return(1)

\* essentia.ignoregenre is not set.
InitFactor ==
    /\ cfg_ignoregenre = None
    /\ InitShared

SpecFactor == InitFactor /\ [][NextFactor]_vars

(***************************************************************************)
(* Properties                                                              *)
(***************************************************************************)
Answered(w) == pc[w] = "done" /\ req[w].kind = "similar" /\ response[w].status = 200
RowsOf(tracks) == {track_list[tracks[i]].rowid : i \in DOMAIN tracks}
InCall(w) == pc[w] \in {"rewrite", "build", "query"}

C2_ColumnFitsQuery ==
    \A w \in Workers :
        pc[w] = "query" => \A p \in Tracks : attrib13[p] = GenreAttrib(loc[w], p)

C6_NoUsableSeedIs400 ==
    \A w \in Workers :
        (pc[w] = "done" /\ req[w].kind = "similar" /\ req[w].track # Nothing) =>
            IF Resolve(Get(req[w].track)) = <<>>
            THEN response[w].status = 400
            ELSE response[w].status # 400

\* C9: after load no request changes a field of a record of the shared track list.
C9_TrackRecordsAsLoaded ==
    similarity = [p \in Tracks |-> NoSim]

\* C10 (as claimed): when fewer than 2 tracks were accepted as USABLE, the backfill
\* brings the accepted count to at least min(2, library size - number of seeds).
C10_BackfillReachesLibraryBound ==
    \A w \in Workers :
        (Answered(w) /\ Len(loc[w].seeds) > 0 /\ Len(loc[w].similar_tracks) < min_count) =>
            Len(response[w].tracks) >= Min(min_count, NumTracks - Len(loc[w].seeds))

\* What the scans of a request left for the backfill to draw on.
Available(l) ==
    Len(l.similar_tracks) + Len(l.filtered_by_previous_tracks)
      + Len(l.filtered_by_current_tracks) + Len(l.filtered_by_seeds_tracks)

\* C10 (amended): when fewer than 2 tracks were accepted as USABLE, the backfill
\* brings the accepted count to at least min(2, the number of candidates the scans
\* classified USABLE or FILTERED).
C10_BackfillReachesAvailable ==
    \A w \in Workers :
        (Answered(w) /\ Len(loc[w].seeds) > 0 /\ Len(loc[w].similar_tracks) < min_count) =>
            Len(response[w].tracks) >= Min(min_count, Available(loc[w]))

\* C10 witness: one track was usable, and the backfill added the second from the
\* tracks filtered for the accepted ones.
C10_Witness ==
    \E w \in Workers :
        /\ Answered(w)
        /\ Len(loc[w].seeds) > 0
        /\ Len(loc[w].similar_tracks) = 1
        /\ Len(loc[w].filtered_by_previous_tracks) = 0
        /\ Len(loc[w].filtered_by_current_tracks) > 0
        /\ Len(response[w].tracks) = min_count

\* C3: no worker runs its k-NN query or builds a tree while another worker is
\* part-way through rewriting the genre column or has yet to replace the tree it
\* rewrote the column for.
C3_QueryAndBuildExcludeRewrite ==
    \A w1, w2 \in Workers :
        (w1 # w2 /\ pc[w1] \in {"query", "build"}) =>
            ~ \/ (pc[w2] = "rewrite" /\ loc[w2].i > 1)
              \/ pc[w2] = "build"

\* C4: a call with the same match_all_genres and the same seed primary genre as the
\* call before it writes nothing to the genre column and builds no tree; the first
\* call after load builds the tree.
C4_SameKeyNoRebuild ==
    \A w \in Workers :
        /\ (pc[w] \in {"rewrite", "build", "query", "dumpout", "scan"} /\ loc[w].prev = Key(loc[w])) =>
              (pc[w] \notin {"rewrite", "build"} /\ ~loc[w].wrote /\ ~loc[w].built)
        /\ (pc[w] \in {"query", "dumpout", "scan"} /\ loc[w].prev = Nothing) =>
              (loc[w].wrote /\ loc[w].built)

\* C4 witness: a call with the key of the call before it, without match_all_genres,
\* has run its query on the tree that was there.
C4_Witness ==
    \E w \in Workers :
        /\ pc[w] = "dumpout"
        /\ loc[w].prev = Key(loc[w])
        /\ ~loc[w].mag
        /\ ~loc[w].built

\* C7: an answered /api/similar request with shuffle=0 that equals the one kept has
\* the response of the one kept.
C7_SameRequestSameResponse ==
    \A w \in Workers :
        (pc[w] = "done" /\ first # Nothing /\ req[w] = Get(first).req) =>
            response[w] = Get(first).response

\* The count the request asks for: `count`, 5 when absent, brought into [5, 50].
EffectiveCount(rq) ==
    LET asked == IF rq.count = Nothing THEN 5 ELSE Get(rq.count)
    IN Max(5, Min(50, asked))

\* C8: the effective count is the supplied count (default 5) clamped into
\* [5, 50], and the response holds no more items than that.
C8_AtMostCount ==
    \A w \in Workers :
        Answered(w) =>
            /\ Count(req[w]) = EffectiveCount(req[w])
            /\ Len(response[w].tracks) <= EffectiveCount(req[w])

\* C8 witness: more tracks than the count were accepted, the count was clamped, and
\* the response holds exactly the count; once with shuffle on, once with it off.
C8_Cut(w, shuffle) ==
    /\ Answered(w)
    /\ Shuffle(req[w]) = shuffle
    /\ req[w].count = Some(3)
    /\ Len(loc[w].similar_tracks) > Count(req[w])
    /\ Len(response[w].tracks) = MIN_TRACKS_TO_RETURN

C8_Witness == \E w \in Workers : C8_Cut(w, FALSE)
C8_WitnessShuffle == \E w \in Workers : C8_Cut(w, TRUE)

\* The distance the table is to hold for (g, h), from the groups of names of the
\* configuration file.
FileGroups == IF cfg_file = Nothing THEN <<>> ELSE Get(cfg_file)
Grouped(g) == \E i \in DOMAIN FileGroups : genre_names[g + 1] \in Range(FileGroups[i])
SameGroup(g, h) ==
    \E i \in DOMAIN FileGroups :
        genre_names[g + 1] \in Range(FileGroups[i]) /\ genre_names[h + 1] \in Range(FileGroups[i])
TableValue(g, h) ==
    IF g = h THEN 1
    ELSE IF SameGroup(g, h) THEN 2
    ELSE IF ~Grouped(g) /\ ~Grouped(h) THEN 2
    ELSE 4

\* C11: once the load has ended, for every valid configuration (also one without
\* `genres`) the table has a row for every genre id and genre_differences[g][h] is
\* 0.1 for g = h, 0.2 for g and h of one group, 0.2 for g and h both in no group,
\* 0.4 otherwise.
C11_TableTotalAndAsSpecified ==
    load_pc \notin {"genres", "rows"} =>
        /\ load_pc = "done"
        /\ Len(genre_diff) = Len(genre_names)
        /\ \A g, h \in GenreIds : genre_diff[g + 1][h] = TableValue(g, h)

\* C12: the scan of a seed stops at count x 3 accepted tracks with shuffle on and
\* at count x 1 with shuffle off, so that after the scans the accepted list holds
\* no more than that for each seed.
C12_ScanStopsAtThreeTimesCount ==
    \A w \in Workers :
        (pc[w] = "finish" \/ Answered(w)) =>
            Len(loc[w].similar_tracks) <=
                Len(loc[w].seeds) * Count(req[w]) * (IF Shuffle(req[w]) THEN 3 ELSE 1)

\* C13: the list get_similar_tracks returns is in ascending distance, never holds
\* the seed's own entry, and holds every other track among the k nearest (here k
\* exceeds the size of the library, so every other track of the library).
C13_SeedOmittedNoOtherDropped ==
    \A w \in Workers :
        pc[w] \in {"dumpout", "scan"} =>
            /\ \A i \in DOMAIN loc[w].resp : track_list[loc[w].resp[i]].rowid # loc[w].seed
            /\ \A p \in Tracks :
                  track_list[p].rowid # loc[w].seed => p \in Range(loc[w].resp)
            /\ \A i, j \in DOMAIN loc[w].resp :
                  i < j => similarity[loc[w].resp[i]] <= similarity[loc[w].resp[j]]

\* The number of alternates artist a accumulated for worker w: the tracks kept for
\* the artist other than the accepted one, which is the first.
Alternates(w, a) == Len(loc[w].matched_artists[a].tracks) - 1

\* The accepted track at place i of worker w's list may be replaced: an artist
\* with two alternates or more has it as its accepted track.
MayBeReplaced(w, i) ==
    \E a \in DOMAIN loc[w].matched_artists :
        loc[w].matched_artists[a].pos = i /\ Alternates(w, a) >= 2

\* The list worker w would answer with if no accepted track were replaced.
Unreplaced(w) == TopTracks(Backfill(loc[w].similar_tracks, loc[w], similarity), req[w], similarity)

\* C14: with shuffle off, an accepted track is missing from its place of the
\* answer (the place it has when nothing is replaced) only if its artist
\* accumulated at least two alternates, and then one of them stands there.
C14_ReplacedOnlyWithTwoAlternatesInPlace ==
    \A w \in Workers :
        (Answered(w) /\ ~Shuffle(req[w])) =>
            /\ Len(response[w].tracks) = Len(Unreplaced(w))
            /\ \A n \in DOMAIN Unreplaced(w) :
                  \/ response[w].tracks[n] = Unreplaced(w)[n]
                  \/ \E i \in DOMAIN loc[w].similar_tracks :
                        /\ loc[w].similar_tracks[i] = Unreplaced(w)[n]
                        /\ MayBeReplaced(w, i)
                        /\ \E a \in DOMAIN loc[w].matched_artists :
                              /\ loc[w].matched_artists[a].pos = i
                              /\ response[w].tracks[n] \in Range(loc[w].matched_artists[a].tracks)

\* C15: the list /api/similar answers with holds no track (rowid) twice.
C15_NoTrackTwice ==
    \A w \in Workers :
        Answered(w) =>
            \A i, j \in DOMAIN response[w].tracks :
                i # j => track_list[response[w].tracks[i]].rowid # track_list[response[w].tracks[j]].rowid

=============================================================================
